---- MODULE Spec2Model ----
(***************************************************************************)
(* A model of skimage.measure._marching_cubes: marching_cubes,             *)
(* mesh_surface_area and correct_mesh_orientation.                         *)
(*                                                                         *)
(* Arithmetic is exact.  Coordinates produced by the edge interpolation    *)
(* are kept doubled (half-voxel units), so that an interpolation fraction  *)
(* of 1/2 stays an integer; spacing is the default (1, 1, 1).              *)
(***************************************************************************)
EXTENDS Integers, Sequences, FiniteSets, TLC

VARIABLES
    pc,                 \* position inside the running call
    err,                \* the exception raised by the call, "" when none
    steps,              \* the steps of the call executed so far, in order
    volume,             \* marching_cubes: [shape, data]
    level,              \* marching_cubes: the contour level
    cell,               \* Cell Iterator: number of the next cell to visit
    raw_faces,          \* the raw triangle stream (list of coordinate triples)
    ret,                \* <<>> until the call returns, then <<value>>
    heap,               \* the arrays alive, by reference (1, 2, ...)
    verts,              \* mesh argument `verts`: a reference into heap
    faces,              \* mesh argument `faces`: a reference into heap
    entry,              \* the values of the mesh arguments at call entry
    field,              \* correct_mesh_orientation: the scalar field `volume`
    gradient_direction, \* correct_mesh_orientation: the mode, a string
    grad_centroids,     \* local: normalized gradients at the face centroids
    crosses,            \* local: normalized face normals
    dotproducts,        \* local: one dot product per face
    indices,            \* local: positions of the mis-oriented faces
    faces_corrected,    \* local: reference of the copy, 0 before the copy
    norms,              \* mesh_surface_area local: |a x b| per face
    hist                \* the calls completed so far: [mode, in, indices, out]

mcvars == <<volume, level, cell, raw_faces>>
meshvars == <<heap, verts, faces, entry>>
cmovars == <<field, gradient_direction, grad_centroids, crosses, dotproducts,
             indices, faces_corrected, hist>>
vars == <<pc, err, steps, ret, mcvars, meshvars, cmovars, norms>>

(***************************************************************************)
(* Bounds and input sets.                                                  *)
(***************************************************************************)
\* Extent of the first axis of the volume; the other two axes have extent 2.
GridM == 3
\* The raw stream is cut off at this many triangles (a cell with a crossing
\* always emits at least one).
MaxRaw == 2

Levels == -1 .. 3

Range(f) == {f[x] : x \in DOMAIN f}

\* All index tuples of an array of the given shape.
Indices(shape) ==
    {idx \in [1 .. Len(shape) -> 0 .. GridM - 1] :
        \A a \in 1 .. Len(shape) : idx[a] < shape[a]}

Shape3 == <<GridM, 2, 2>>
Shape2 == <<GridM, 2>>
Shape4 == <<GridM, 2, 2, 1>>

Flat(shape, c) == [shape |-> shape, data |-> [idx \in Indices(shape) |-> c]]
Hot(shape, p) ==
    [shape |-> shape,
     data |-> [idx \in Indices(shape) |-> IF idx = p THEN 2 ELSE 0]]
Ramp(shape) ==
    [shape |-> shape,
     data |-> [idx \in Indices(shape) |-> IF idx[1] < 2 THEN idx[1] ELSE 2]]

HotPositions == {<<0, 0, 0>>, <<1, 0, 0>>, <<1, 1, 1>>, <<GridM - 1, 1, 0>>}

Volumes ==
    {Flat(Shape3, 0), Ramp(Shape3)}
        \cup {Hot(Shape3, p) : p \in HotPositions}
        \cup {Flat(Shape2, 0), Hot(Shape2, <<0, 0>>)}
        \cup {Flat(Shape4, 0), Hot(Shape4, <<0, 0, 0, 0>>)}

(***************************************************************************)
(* numpy helpers used by marching_cubes.                                   *)
(***************************************************************************)
ndim(v) == Len(v.shape)
min(v) == CHOOSE m \in Range(v.data) : \A x \in Range(v.data) : m <= x
max(v) == CHOOSE m \in Range(v.data) : \A x \in Range(v.data) : m >= x

(***************************************************************************)
(* _marching_cubes_cy.iterate_and_store_3d: Cube Classifier, Edge          *)
(* Interpolator and Cell Iterator.  The 256-entry case table is not part   *)
(* of the model: a cell whose corners are all on one side emits nothing,   *)
(* any other cell emits at least one triangle, each on three of its       *)
(* active edges, chosen nondeterministically.                              *)
(***************************************************************************)
NCells(v) == (v.shape[1] - 1) * (v.shape[2] - 1) * (v.shape[3] - 1)

\* Origin of the c-th cell (0-based) in row-major order.
CellOrigin(v, c) ==
    LET np == (v.shape[2] - 1) * (v.shape[3] - 1)
        p  == v.shape[3] - 1
    IN  <<c \div np, (c % np) \div p, c % p>>

Corners(o) ==
    {<<o[1] + d[1], o[2] + d[2], o[3] + d[3]>> : d \in [1 .. 3 -> 0 .. 1]}

\* The 12 edges of a cell: two corners that differ by one step on one axis.
Edges(o) ==
    {e \in Corners(o) \X Corners(o) :
        \E a \in 1 .. 3 :
            /\ e[2][a] = e[1][a] + 1
            /\ \A b \in (1 .. 3) \ {a} : e[2][b] = e[1][b]}

\* Cube Classifier: the corners whose sample is >= level.
CubeCase(v, lv, o) == {c \in Corners(o) : v.data[c] >= lv}

ActiveEdges(v, lv, o) ==
    {e \in Edges(o) : (e[1] \in CubeCase(v, lv, o)) # (e[2] \in CubeCase(v, lv, o))}

\* Edge Interpolator: t = (level - v0) / (v1 - v0), position c0 + t (c1 - c0);
\* returned doubled.  Only called on active edges, where v0 # v1.
Interpolate(v, lv, e) ==
    LET v0 == v.data[e[1]]
        v1 == v.data[e[2]]
        t2 == IF v1 > v0 THEN (2 * (lv - v0)) \div (v1 - v0)
                         ELSE (2 * (v0 - lv)) \div (v0 - v1)
    IN  <<2 * e[1][1] + t2 * (e[2][1] - e[1][1]),
          2 * e[1][2] + t2 * (e[2][2] - e[1][2]),
          2 * e[1][3] + t2 * (e[2][3] - e[1][3])>>

\* A raw triangle of a cell: the crossing points of three different active
\* edges, in some order.  Crossing points of different edges may coincide
\* (t = 0 or 1 puts them on a shared corner): such a triangle is degenerate.
RawTriangles(v, lv, o) ==
    LET A == ActiveEdges(v, lv, o)
    IN  {<<Interpolate(v, lv, e[1]), Interpolate(v, lv, e[2]), Interpolate(v, lv, e[3])>> :
            e \in {x \in A \X A \X A : x[1] # x[2] /\ x[1] # x[3] /\ x[2] # x[3]}}

\* The triangle lists one cell may append to a stream that already holds n.
CellTriangles(v, lv, o, n) ==
    IF ActiveEdges(v, lv, o) = {} THEN {<<>>}
    ELSE LET room == IF MaxRaw - n > 1 THEN MaxRaw - n ELSE 1
         IN  UNION {[1 .. k -> RawTriangles(v, lv, o)] : k \in 1 .. room}

(***************************************************************************)
(* _marching_cubes_cy.unpack_unique_verts: vertex welding.                 *)
(***************************************************************************)
\* 0-based index of coordinate x in vert_list.
vert_index(vert_list, x) == (CHOOSE i \in 1 .. Len(vert_list) : vert_list[i] = x) - 1

AddVert(vert_list, x) ==
    IF x \in Range(vert_list) THEN vert_list ELSE Append(vert_list, x)

RECURSIVE unpack_from(_, _, _, _)
unpack_from(trilist, i, vert_list, face_list) ==
    IF i > Len(trilist) THEN [verts |-> vert_list, faces |-> face_list]
    ELSE LET t  == trilist[i]
             vl == AddVert(AddVert(AddVert(vert_list, t[1]), t[2]), t[3])
             templist == <<vert_index(vl, t[1]), vert_index(vl, t[2]),
                           vert_index(vl, t[3])>>
         IN  unpack_from(trilist, i + 1, vl, Append(face_list, templist))

unpack_unique_verts(trilist) == unpack_from(trilist, 1, <<>>, <<>>)

(***************************************************************************)
(* marching_cubes.                                                         *)
(***************************************************************************)
\* Mutant: the raw vertices are returned as they are, one entry per
\* occurrence, without welding.
RECURSIVE NoWeldFrom(_, _, _, _)
NoWeldFrom(trilist, i, vert_list, face_list) ==
    IF i > Len(trilist) THEN [verts |-> vert_list, faces |-> face_list]
    ELSE LET n == Len(vert_list)
         IN  NoWeldFrom(trilist, i + 1,
                        vert_list \o <<trilist[i][1], trilist[i][2], trilist[i][3]>>,
                        Append(face_list, <<n, n + 1, n + 2>>))

McMeshNoWeld(raw) == NoWeldFrom(raw, 1, <<>>, <<>>)

\* Mutant: the faces count the vertices from 1.
McMeshOneBased(raw) ==
    LET m == unpack_unique_verts(raw)
    IN  [verts |-> m.verts,
         faces |-> [k \in 1 .. Len(m.faces) |->
                       <<m.faces[k][1] + 1, m.faces[k][2] + 1, m.faces[k][3] + 1>>]]

\* verts, faces = unpack_unique_verts(raw_faces); return asarray both.
McMesh(raw) == unpack_unique_verts(raw)

\* Mutant: the data-range test rejects the two ends of the range as well.
LevelOutOfRangeStrict(v, lv) == lv <= min(v) \/ lv >= max(v)

\* if level < volume.min() or level > volume.max()
LevelOutOfRange(v, lv) == lv < min(v) \/ lv > max(v)

\* Mutant: only volumes with too few axes are rejected.
BadDimTooFew(v) == ndim(v) < 3

\* if volume.ndim != 3
BadDim(v) == ndim(v) # 3

\* The values of the variables an operation does not use.
NoMC == volume = Flat(Shape3, 0) /\ level = 0 /\ cell = 0 /\ raw_faces = <<>>
NoMesh == heap = <<>> /\ verts = 0 /\ faces = 0 /\ entry = <<>>
NoCmo ==
    /\ field = <<>>
    /\ gradient_direction = <<>>
    /\ grad_centroids = <<>>
    /\ crosses = <<>>
    /\ dotproducts = <<>>
    /\ indices = {}
    /\ faces_corrected = 0
    /\ hist = <<>>

InitMC ==
    /\ pc = "mc_dim"
    /\ err = ""
    /\ steps = <<>>
    /\ volume \in Volumes
    /\ level \in Levels
    /\ cell = 0
    /\ raw_faces = <<>>
    /\ ret = <<>>
    /\ NoMesh
    /\ NoCmo
    /\ norms = <<>>

McCheckDim ==
    /\ pc = "mc_dim"
    /\ steps' = Append(steps, "check_dim")
    /\ IF BadDim(volume)
       THEN pc' = "mc_raised" /\ err' = "InvalidDimension"
       ELSE pc' = "mc_level" /\ err' = err
    /\ UNCHANGED <<ret, mcvars, meshvars, cmovars, norms>>

\* The test reads the volume as passed in; the cast to float64 that follows
\* (line 108) keeps every sample's value.
McCheckLevel ==
    /\ pc = "mc_level"
    /\ steps' = Append(steps, "check_level")
    /\ IF LevelOutOfRange(volume, level)
       THEN pc' = "mc_raised" /\ err' = "LevelOutOfRange"
       ELSE pc' = "mc_iterate" /\ err' = err
    /\ UNCHANGED <<ret, mcvars, meshvars, cmovars, norms>>

\* One cell of iterate_and_store_3d.
McIterateCell ==
    /\ pc = "mc_iterate"
    /\ cell < NCells(volume)
    /\ \E tris \in CellTriangles(volume, level, CellOrigin(volume, cell), Len(raw_faces)) :
           raw_faces' = raw_faces \o tris
    /\ cell' = cell + 1
    /\ steps' = IF cell = 0 THEN Append(steps, "iterate") ELSE steps
    /\ UNCHANGED <<pc, err, volume, level, ret, meshvars, cmovars, norms>>

McUnpack ==
    /\ pc = "mc_iterate"
    /\ cell = NCells(volume)
    /\ pc' = "mc_done"
    /\ ret' = <<McMesh(raw_faces)>>
    /\ steps' = Append(steps, "unpack")
    /\ UNCHANGED <<err, mcvars, meshvars, cmovars, norms>>

NextMC == McCheckDim \/ McCheckLevel \/ McIterateCell \/ McUnpack

SpecMC == InitMC /\ [][NextMC]_vars

(***************************************************************************)
(* Meshes handed to mesh_surface_area and correct_mesh_orientation.        *)
(***************************************************************************)
\* Largest number of faces of an input mesh.
MaxFaces == 2
\* sqrt is computed to this many units per 1 (results are rounded down).
SqrtScale == 4

\* The (V, 3) array `verts`; row 4 is on the line through rows 0 and 1.
MeshVerts ==
    <<<<0, 0, 0>>, <<2, 0, 0>>, <<0, 2, 0>>, <<0, 0, 2>>, <<4, 0, 0>>>>

\* The rows `faces` is made of: both windings of a triangle, a slanted
\* triangle, and faces with collinear or repeated vertices.
FacePool ==
    {<<0, 1, 2>>, <<2, 1, 0>>, <<1, 2, 3>>, <<3, 1, 0>>,
     <<0, 1, 4>>, <<0, 0, 1>>, <<1, 0, 1>>}

FaceArrays == UNION {[1 .. n -> FacePool] : n \in 0 .. MaxFaces}

InitMesh ==
    /\ \E fs \in FaceArrays :
          /\ heap = <<MeshVerts, fs>>
          /\ entry = <<MeshVerts, fs>>
    /\ verts = 1
    /\ faces = 2

(***************************************************************************)
(* Vector helpers (numpy arithmetic on rows of length 3).                  *)
(***************************************************************************)
Minus(p, q) == <<p[1] - q[1], p[2] - q[2], p[3] - q[3]>>
Plus(p, q) == <<p[1] + q[1], p[2] + q[2], p[3] + q[3]>>
Scaled(k, p) == <<k * p[1], k * p[2], k * p[3]>>
Dot(p, q) == p[1] * q[1] + p[2] * q[2] + p[3] * q[3]
\* np.cross
Cross(a, b) ==
    <<a[2] * b[3] - a[3] * b[2], a[3] * b[1] - a[1] * b[3], a[1] * b[2] - a[2] * b[1]>>

\* x ** 0.5 for x >= 0, in units of 1 / SqrtScale, rounded down.
Sqrt(x) ==
    CHOOSE r \in 0 .. (x + 1) * SqrtScale :
        r * r <= x * SqrtScale * SqrtScale /\ (r + 1) * (r + 1) > x * SqrtScale * SqrtScale

RECURSIVE Sum(_)
Sum(xs) == IF xs = <<>> THEN 0 ELSE Head(xs) + Sum(Tail(xs))

\* verts[faces]: the three coordinates of every face.
actual_verts(vs, fs) == [i \in 1 .. Len(fs) |-> [j \in 1 .. 3 |-> vs[fs[i][j] + 1]]]
\* a = actual_verts[:, 0, :] - actual_verts[:, 1, :]
EdgeA(av) == [i \in 1 .. Len(av) |-> Minus(av[i][1], av[i][2])]
\* b = actual_verts[:, 0, :] - actual_verts[:, 2, :]
EdgeB(av) == [i \in 1 .. Len(av) |-> Minus(av[i][1], av[i][3])]

(***************************************************************************)
(* mesh_surface_area.  The value returned is kept in units of              *)
(* 1 / (2 SqrtScale): it is the sum of the norms, the final division by 2  *)
(* being left to the unit.                                                 *)
(***************************************************************************)
\* Mutant: the components of the cross product are summed as they are.
CrossNormNoSquare(c) == SqrtScale * (c[1] + c[2] + c[3])

\* (np.cross(a, b) ** 2).sum(axis=1) ** 0.5, for one face
CrossNorm(c) == Sqrt(c[1] * c[1] + c[2] * c[2] + c[3] * c[3])

FaceNorms(vs, fs) ==
    LET av == actual_verts(vs, fs)
    IN  [i \in 1 .. Len(fs) |-> CrossNorm(Cross(EdgeA(av)[i], EdgeB(av)[i]))]

InitArea ==
    /\ pc = "area_entry"
    /\ err = ""
    /\ steps = <<>>
    /\ ret = <<>>
    /\ InitMesh
    /\ NoMC
    /\ NoCmo
    /\ norms = <<>>

\* lines 159-165 up to the per-face norms
AreaNorms ==
    /\ pc = "area_entry"
    /\ norms' = FaceNorms(heap[verts], heap[faces])
    /\ pc' = "area_sum"
    /\ steps' = Append(steps, "norms")
    /\ UNCHANGED <<err, ret, mcvars, meshvars, cmovars>>

\* .sum() / 2. and return
AreaReturn ==
    /\ pc = "area_sum"
    /\ ret' = <<Sum(norms)>>
    /\ pc' = "area_done"
    /\ steps' = Append(steps, "sum")
    /\ UNCHANGED <<err, norms, mcvars, meshvars, cmovars>>

NextArea == AreaNorms \/ AreaReturn

SpecArea == InitArea /\ [][NextArea]_vars

(***************************************************************************)
(* correct_mesh_orientation.                                               *)
(*                                                                         *)
(* `volume` is a field v(x) = g0 . x + (k / 2) |x|^2.  np.gradient and     *)
(* map_coordinates are library calls; what they return at a centroid is    *)
(* modelled by the gradient of v there, g0 + k x.  Vectors are kept up to  *)
(* a positive factor, which normalization removes: a normalized vector is  *)
(* [nan, dir], with nan set when the vector was zero (0 / 0).              *)
(***************************************************************************)
Fields ==
    {[g0 |-> g, k |-> k] :
        g \in {<<0, 0, 0>>, <<0, 0, 1>>, <<0, 0, -1>>, <<1, -1, 0>>}, k \in {0, 1}}

DESCENT == <<"d", "e", "s", "c", "e", "n", "t">>
ASCENT == <<"a", "s", "c", "e", "n", "t">>

Modes ==
    {DESCENT, ASCENT, DESCENT \o <<"s">>, <<"x">> \o ASCENT,
     <<"s", "c", "e", "n", "t">>, <<"u", "p">>, <<>>}

\* Python's `sub in s` on strings.
In(sub, s) ==
    \E i \in 1 .. (Len(s) - Len(sub) + 1) : SubSeq(s, i, i + Len(sub) - 1) = sub

\* 3 * centroid: actual_verts.sum(axis=1), the division by 3 left out.
Centroid3(tri) == Plus(Plus(tri[1], tri[2]), tri[3])

\* 3 * (gradient of the field at the centroid)
GradAt(fld, c3) == Plus(Scaled(3, fld.g0), Scaled(fld.k, c3))

\* v / |v|
Normalized(v) == [nan |-> v = <<0, 0, 0>>, dir |-> v]

\* (grad_centroids * crosses).sum(axis=1) for one face, up to the positive
\* factor |g| |n|; nan when either operand is.
DotProduct(g, n) == [nan |-> g.nan \/ n.nan, v |-> Dot(g.dir, n.dir)]

\* Comparisons of a float with 0; false on nan.
Lt0(d) == ~d.nan /\ d.v < 0
Gt0(d) == ~d.nan /\ d.v > 0
Le0(d) == ~d.nan /\ d.v <= 0

\* Mutant: descent also takes the faces whose dot product is 0.
MisOrientedLe(mode, ds) ==
    IF In(DESCENT, mode) THEN {i \in 1 .. Len(ds) : Le0(ds[i])}
                         ELSE {i \in 1 .. Len(ds) : Gt0(ds[i])}

\* lines 260-265, for a mode that passes one of the two tests:
\* (mask).nonzero()[0], as the set of 1-based positions
MisOriented(mode, ds) ==
    IF In(DESCENT, mode) THEN {i \in 1 .. Len(ds) : Lt0(ds[i])}
                         ELSE {i \in 1 .. Len(ds) : Gt0(ds[i])}

\* Whether lines 260-268 raise.
ModeRejected(mode) == ~In(DESCENT, mode) /\ ~In(ASCENT, mode)

\* Mutant: no copy is made, the result is the argument itself.
AliasArray(h, r) == [heap |-> h, ref |-> r]

\* faces.copy(): a new array with the same values
CopyArray(h, r) == [heap |-> Append(h, h[r]), ref |-> Len(h) + 1]

\* Mutant: the three indices are rotated instead of reversed.
RotatedRow(f) == <<f[2], f[3], f[1]>>

\* row[::-1]
ReversedRow(f) == <<f[3], f[2], f[1]>>

InitCMO ==
    /\ pc = "cmo_entry"
    /\ err = ""
    /\ steps = <<>>
    /\ ret = <<>>
    /\ InitMesh
    /\ NoMC
    /\ norms = <<>>
    /\ field \in Fields
    /\ gradient_direction \in Modes
    /\ grad_centroids = <<>>
    /\ crosses = <<>>
    /\ dotproducts = <<>>
    /\ indices = {}
    /\ faces_corrected = 0
    /\ hist = <<>>

\* line 228: np.gradient(volume, *spacing)
CmoGradient ==
    /\ pc = "cmo_entry"
    /\ pc' = "cmo_sample"
    /\ steps' = Append(steps, "gradient")
    /\ UNCHANGED <<err, ret, mcvars, meshvars, cmovars, norms>>

\* lines 231-250: centroids, map_coordinates, normalization
CmoSample ==
    /\ pc = "cmo_sample"
    /\ LET av == actual_verts(heap[verts], heap[faces])
       IN  grad_centroids' =
               [i \in 1 .. Len(av) |-> Normalized(GradAt(field, Centroid3(av[i])))]
    /\ pc' = "cmo_dot"
    /\ steps' = Append(steps, "sample")
    /\ UNCHANGED <<err, ret, mcvars, meshvars, norms, field, gradient_direction,
                   crosses, dotproducts, indices, faces_corrected, hist>>

\* lines 253-257: normals and dot products
CmoDot ==
    /\ pc = "cmo_dot"
    /\ LET av == actual_verts(heap[verts], heap[faces])
           cr == [i \in 1 .. Len(av) |-> Normalized(Cross(EdgeA(av)[i], EdgeB(av)[i]))]
       IN  /\ crosses' = cr
           /\ dotproducts' = [i \in 1 .. Len(av) |-> DotProduct(grad_centroids[i], cr[i])]
    /\ pc' = "cmo_mode"
    /\ steps' = Append(steps, "dot")
    /\ UNCHANGED <<err, ret, mcvars, meshvars, norms, field, gradient_direction,
                   grad_centroids, indices, faces_corrected, hist>>

\* lines 260-268
CmoMode ==
    /\ pc = "cmo_mode"
    /\ steps' = Append(steps, "mode")
    /\ IF ModeRejected(gradient_direction)
       THEN /\ pc' = "cmo_raised"
            /\ err' = "InvalidMode"
            /\ indices' = indices
       ELSE /\ pc' = "cmo_copy"
            /\ err' = err
            /\ indices' = MisOriented(gradient_direction, dotproducts)
    /\ UNCHANGED <<ret, mcvars, meshvars, norms, field, gradient_direction,
                   grad_centroids, crosses, dotproducts, faces_corrected, hist>>

\* line 271
CmoCopy ==
    /\ pc = "cmo_copy"
    /\ LET c == CopyArray(heap, faces)
       IN  heap' = c.heap /\ faces_corrected' = c.ref
    /\ pc' = "cmo_flip"
    /\ steps' = Append(steps, "copy")
    /\ UNCHANGED <<err, ret, mcvars, verts, faces, entry, norms, field,
                   gradient_direction, grad_centroids, crosses, dotproducts,
                   indices, hist>>

\* lines 272-274: the rows at `indices` are replaced by their reversals (the
\* right-hand side is evaluated first), and the copy is returned.
CmoFlip ==
    /\ pc = "cmo_flip"
    /\ LET old == heap[faces_corrected]
           new == [i \in 1 .. Len(old) |->
                      IF i \in indices THEN ReversedRow(old[i]) ELSE old[i]]
       IN  /\ heap' = [heap EXCEPT ![faces_corrected] = new]
           /\ ret' = <<new>>
           /\ hist' = Append(hist, [mode |-> gradient_direction, in |-> entry[2],
                                    indices |-> indices, out |-> new])
    /\ pc' = "cmo_done"
    /\ steps' = Append(steps, "flip")
    /\ UNCHANGED <<err, mcvars, verts, faces, entry, norms, field,
                   gradient_direction, grad_centroids, crosses, dotproducts,
                   indices, faces_corrected>>

OppositeMode(mode) == IF mode = DESCENT THEN ASCENT ELSE DESCENT

\* The caller of a round trip: after a call with one of the two modes it
\* calls again, on the faces returned, with the other mode; three calls.
CmoCallAgain ==
    /\ pc = "cmo_done"
    /\ gradient_direction \in {DESCENT, ASCENT}
    /\ Len(hist) < 3
    /\ faces' = faces_corrected
    /\ entry' = <<heap[verts], heap[faces_corrected]>>
    /\ gradient_direction' = OppositeMode(gradient_direction)
    /\ pc' = "cmo_entry"
    /\ steps' = <<>>
    /\ ret' = <<>>
    /\ grad_centroids' = <<>>
    /\ crosses' = <<>>
    /\ dotproducts' = <<>>
    /\ indices' = {}
    /\ faces_corrected' = 0
    /\ UNCHANGED <<err, mcvars, heap, verts, norms, field, hist>>

NextCMO ==
    CmoGradient \/ CmoSample \/ CmoDot \/ CmoMode \/ CmoCopy \/ CmoFlip \/ CmoCallAgain

SpecCMO == InitCMO /\ [][NextCMO]_vars

(***************************************************************************)
(* Properties of marching_cubes (SpecMC).                                  *)
(***************************************************************************)
McPastLevelCheck == pc \in {"mc_iterate", "mc_done"}

\* level lies strictly outside [min(volume), max(volume)]
StrictlyOutside ==
    \/ \A x \in Range(volume.data) : level < x
    \/ \A x \in Range(volume.data) : level > x

\* C1: a call on a 3-D volume ends with the level-out-of-range error exactly
\* when level is strictly below every sample or strictly above every sample;
\* a level equal to the smallest or largest sample (the flat field included)
\* passes the check.
C1_LevelRejectedIffOutside ==
    (ndim(volume) = 3 /\ (pc = "mc_raised" \/ McPastLevelCheck)) =>
        /\ (pc = "mc_raised" /\ err = "LevelOutOfRange") <=> StrictlyOutside
        /\ McPastLevelCheck <=> ~StrictlyOutside

\* The flat field with level = min = max is accepted and gives an empty mesh.
C1_Witness ==
    /\ pc = "mc_done"
    /\ volume = Flat(Shape3, 0)
    /\ level = 0
    /\ ret = <<[verts |-> <<>>, faces |-> <<>>]>>

\* C2: a volume whose number of axes is not 3 is rejected with the
\* invalid-dimension error by the first step of the call: the level check
\* and the cell traversal never run, no raw triangle exists and nothing is
\* returned.
C2_BadDimRejectedFirst ==
    ndim(volume) # 3 =>
        /\ pc \in {"mc_dim", "mc_raised"}
        /\ pc = "mc_raised" => (err = "InvalidDimension" /\ steps = <<"check_dim">>)
        /\ raw_faces = <<>>
        /\ cell = 0
        /\ ret = <<>>

\* A 4-D volume, with a level that the range check would reject too.
C2_Witness ==
    /\ pc = "mc_raised"
    /\ ndim(volume) = 4
    /\ StrictlyOutside
    /\ err = "InvalidDimension"

\* C7: in the mesh returned, every face has three indices, each a valid
\* 0-based position of verts, and no coordinate appears twice in verts.
C7_MeshWellFormed ==
    pc = "mc_done" =>
        LET vs == ret[1].verts
            fs == ret[1].faces
        IN  /\ \A k \in 1 .. Len(fs) :
                  /\ Len(fs[k]) = 3
                  /\ \A j \in 1 .. 3 : fs[k][j] \in 0 .. Len(vs) - 1
            /\ \A i, j \in 1 .. Len(vs) : vs[i] = vs[j] => i = j

\* Two triangles that share two of their vertices: four vertices, not six.
C7_Witness ==
    /\ pc = "mc_done"
    /\ Len(ret[1].faces) = 2
    /\ Len(ret[1].verts) = 4

\* The raw stream as one list of coordinates, triangle by triangle.
RECURSIVE Flatten(_)
Flatten(raw) ==
    IF raw = <<>> THEN <<>>
    ELSE <<raw[1][1], raw[1][2], raw[1][3]>> \o Flatten(Tail(raw))

DegenerateFace(vs, f) ==
    LET p == vs[f[1] + 1]
        q == vs[f[2] + 1]
        r == vs[f[3] + 1]
    IN  \E m, n \in -4 .. 4 :
            /\ <<m, n>> # <<0, 0>>
            /\ Scaled(m, Minus(q, p)) = Scaled(n, Minus(r, p))

CmoAccepted == pc \in {"cmo_copy", "cmo_flip", "cmo_done"}

\* C3, as claimed: a call whose mode is not exactly "descent" or "ascent"
\* is rejected and returns no faces.  (The code tests for a substring.)
C3_OnlyTheTwoModesAccepted ==
    gradient_direction \notin {DESCENT, ASCENT} => (~CmoAccepted /\ ret = <<>>)

\* C4, as claimed: when the mode is rejected, the gradient computation, the
\* centroid sampling and the dot products have not run.
C4_RejectedBeforeAnyWork ==
    pc = "cmo_raised" =>
        /\ "gradient" \notin Range(steps)
        /\ "sample" \notin Range(steps)
        /\ "dot" \notin Range(steps)

\* C5: the arrays passed in hold at every step of the call the values they
\* had at entry, and the faces returned have the length of the input, each
\* row being the input row or the input row reversed.
C5_CopyWithRowsKeptOrReversed ==
    /\ pc \in {"cmo_entry", "cmo_sample", "cmo_dot", "cmo_mode", "cmo_raised",
               "cmo_copy", "cmo_flip", "cmo_done"} =>
           /\ heap[verts] = entry[1]
           /\ heap[faces] = entry[2]
    /\ pc = "cmo_done" =>
           /\ Len(ret[1]) = Len(entry[2])
           /\ \A i \in 1 .. Len(ret[1]) :
                  LET f == entry[2][i]
                  IN  ret[1][i] = f \/ ret[1][i] = <<f[3], f[2], f[1]>>

\* A call that reversed a row.
C5_Witness ==
    /\ pc = "cmo_done"
    /\ indices # {}
    /\ ret[1] # entry[2]
    /\ heap[faces] = entry[2]

\* C6: when the first call of a round trip (mode m) flips no face, the
\* third call (mode m, on what the call with the opposite mode returned)
\* returns the faces the first call was given.
C6_RoundTrip ==
    (Len(hist) = 3 /\ hist[1].indices = {}) =>
        /\ hist[2].mode = OppositeMode(hist[1].mode)
        /\ hist[3].mode = hist[1].mode
        /\ hist[2].in = hist[1].in
        /\ hist[3].in = hist[2].out
        /\ hist[3].out = hist[1].in

\* A round trip whose middle call reversed a face.
C6_Witness ==
    /\ Len(hist) = 3
    /\ hist[1].indices = {}
    /\ hist[2].indices # {}
    /\ hist[2].out # hist[1].in
    /\ hist[3].out = hist[1].in

\* C9: with mode "descent" exactly the faces with dot product < 0 are
\* reversed, with mode "ascent" exactly those with dot product > 0; a face
\* with dot product 0 is left as it is in both modes.
C9_FlippedBySign ==
    (pc = "cmo_done" /\ gradient_direction \in {DESCENT, ASCENT}) =>
        \A i \in 1 .. Len(entry[2]) :
            LET d == dotproducts[i]
                f == entry[2][i]
                flip == IF gradient_direction = DESCENT
                        THEN ~d.nan /\ d.v < 0
                        ELSE ~d.nan /\ d.v > 0
            IN  /\ (i \in indices) <=> flip
                /\ ret[1][i] = IF flip THEN <<f[3], f[2], f[1]>> ELSE f
                /\ (~d.nan /\ d.v = 0) => ret[1][i] = f

\* A descent call on a mesh with a face of negative and a face of zero dot
\* product.
C9_Witness ==
    /\ pc = "cmo_done"
    /\ gradient_direction = DESCENT
    /\ \E i, j \in 1 .. Len(entry[2]) :
           /\ ~dotproducts[i].nan /\ dotproducts[i].v < 0 /\ i \in indices
           /\ ~dotproducts[j].nan /\ dotproducts[j].v = 0 /\ j \notin indices

====
